---- MODULE Spec2Model ----
(***************************************************************************)
(* Model of the chart editor component, src/src/components/ChartEditor.tsx: *)
(* the working copy of a chart (name, canvas size, button collection), the *)
(* editing draft, the canvas reconcile effect and the handlers the         *)
(* presentation layer invokes.                                             *)
(*                                                                         *)
(* Numbers are JavaScript numbers restricted to the integers plus NaN.     *)
(* NaN is one reserved integer; every arithmetic operation and comparison  *)
(* of the source goes through the Js/Math operators below so that NaN      *)
(* propagates and compares the way it does in the source language.         *)
(* A button id is String(Date.now()); String is injective on integers, so  *)
(* an id is modelled by the timestamp it was made from.                    *)
(* Drag and resize interactions (useChartInteractions) are not part of the *)
(* component's file and are not modelled.                                  *)
(***************************************************************************)
EXTENDS Integers, Sequences, FiniteSets, TLC

VARIABLES
  chart,               \* the chart prop handed in by the persistence collaborator
  allRanges,           \* ids of the reference items of the range context
  chartName,           \* useState(chart.name)
  buttons,             \* useState(chart.buttons): the working collection
  canvasWidth,         \* useState(chart.canvasWidth || 800)
  canvasHeight,        \* useState(chart.canvasHeight || 500)
  isButtonModalOpen,   \* useState(false)
  editingButton,       \* useState(null): the editing draft
  isLegendPreviewOpen, \* useState(false)
  now,                 \* the value Date.now() returns
  saved,               \* the chart handed to onSaveChart, once the editor was left
  calls,               \* the collaborator callbacks invoked, in order
  lastOp,              \* history: the handler that ran last, and whether a draft was set
  reconciled,          \* history: outcome of the reconcile pass of the last step
  session,             \* history: the collection as it was when the draft was opened
  steps,               \* history: the number of events handled so far
  probe                \* input and result of the clamp applied on its own

vars == << chart, allRanges, chartName, buttons, canvasWidth, canvasHeight,
           isButtonModalOpen, editingButton, isLegendPreviewOpen, now, saved,
           calls, lastOp, reconciled, session, steps, probe >>

-----------------------------------------------------------------------------
(* Bounds of the model *)

\* The handlers that add a button are taken only below this collection length.
MaxButtons == 2
\* At most this many events are handled in one behaviour.
MaxSteps == 4
\* The clock advances at most this many milliseconds.
MaxTicks == 1
\* The clamp is applied at most this many times in a row on one probe.
MaxPasses == 2

-----------------------------------------------------------------------------
(* JavaScript numbers *)

NaN == -1000000

IsNaN(v) == v = NaN

JsAdd(a, b) == IF IsNaN(a) \/ IsNaN(b) THEN NaN ELSE a + b

JsSub(a, b) == IF IsNaN(a) \/ IsNaN(b) THEN NaN ELSE a - b

MathMax(a, b) == IF IsNaN(a) \/ IsNaN(b) THEN NaN ELSE IF a >= b THEN a ELSE b

MathMin(a, b) == IF IsNaN(a) \/ IsNaN(b) THEN NaN ELSE IF a <= b THEN a ELSE b

\* a !== b on numbers: NaN differs from everything, itself included
JsNeq(a, b) == IsNaN(a) \/ IsNaN(b) \/ a # b

\* a < b on numbers: false as soon as one side is NaN
JsLt(a, b) == ~IsNaN(a) /\ ~IsNaN(b) /\ a < b

\* a <= b on numbers
JsLeq(a, b) == ~IsNaN(a) /\ ~IsNaN(b) /\ a <= b

\* Object.is(a, b) on numbers: the comparison of effect dependencies and of
\* a state value with the one being set; NaN is the same as NaN
ObjectIs(a, b) == a = b

\* v || d on a number: 0 and NaN are falsy
OrDefault(v, d) == IF v = 0 \/ IsNaN(v) THEN d ELSE v

\* Math.round(n * p / 100) for n >= 0
RoundPercent(n, p) == (n * p + 50) \div 100

Digits == <<"0", "1", "2", "3", "4", "5", "6", "7", "8", "9">>

IsDigit(c) == \E d \in 1..10 : Digits[d] = c

DigitVal(c) == (CHOOSE d \in 1..10 : Digits[d] = c) - 1

RECURSIVE SkipSpaces(_)
SkipSpaces(s) == IF s # <<>> /\ Head(s) = " " THEN SkipSpaces(Tail(s)) ELSE s

RECURSIVE ParseDigits(_, _)
ParseDigits(s, acc) ==
  IF s # <<>> /\ IsDigit(Head(s))
    THEN ParseDigits(Tail(s), acc * 10 + DigitVal(Head(s)))
    ELSE acc

\* parseInt(value, 10) on a text given as its sequence of characters:
\* leading blanks, an optional sign, then the longest run of digits;
\* NaN when no digit is there
ParseInt(value) ==
  LET s    == SkipSpaces(value)
      neg  == s # <<>> /\ Head(s) = "-"
      body == IF s # <<>> /\ Head(s) \in {"-", "+"} THEN Tail(s) ELSE s
  IN IF body = <<>> \/ ~IsDigit(Head(body)) THEN NaN
     ELSE IF neg THEN 0 - ParseDigits(body, 0) ELSE ParseDigits(body, 0)

-----------------------------------------------------------------------------
(* Geometry clamp and the reconcile pass *)

MIN_CANVAS_DIMENSION == 100
MIN_BUTTON_DIMENSION == 5
DefaultCanvasWidth == 800
DefaultCanvasHeight == 500

NewWidth1(button) == MathMax(MIN_BUTTON_DIMENSION, button.width)

NewHeight1(button) == MathMax(MIN_BUTTON_DIMENSION, button.height)

\* the second step forgets the floor at 0
NewXNoFloor(button, cw) == MathMin(button.x, JsSub(cw, NewWidth1(button)))

NewX(button, cw) == MathMax(0, MathMin(button.x, JsSub(cw, NewWidth1(button))))

NewY(button, ch) == MathMax(0, MathMin(button.y, JsSub(ch, NewHeight1(button))))

\* the third step misreads the original x instead of the clamped one
NewWidthFromOldX(button, cw) == MathMin(NewWidth1(button), JsSub(cw, button.x))

NewWidth(button, cw) == MathMin(NewWidth1(button), JsSub(cw, NewX(button, cw)))

NewHeight(button, ch) == MathMin(NewHeight1(button), JsSub(ch, NewY(button, ch)))

\* the three clamp steps applied to one button
ClampButton(button, cw, ch) ==
  [button EXCEPT !.x = NewX(button, cw), !.y = NewY(button, ch),
                 !.width = NewWidth(button, cw), !.height = NewHeight(button, ch)]

\* the test that decides whether the pass replaces the button
ButtonChanged(button, cw, ch) ==
  \/ JsNeq(NewX(button, cw), button.x)
  \/ JsNeq(NewY(button, ch), button.y)
  \/ JsNeq(NewWidth(button, cw), button.width)
  \/ JsNeq(NewHeight(button, ch), button.height)

\* the pass stops after the first button
UpdatedFirstOnly(prevButtons, cw, ch) ==
  [i \in DOMAIN prevButtons |->
     IF i = 1 /\ ButtonChanged(prevButtons[i], cw, ch)
       THEN ClampButton(prevButtons[i], cw, ch)
       ELSE prevButtons[i]]

UpdatedButtons(prevButtons, cw, ch) ==
  [i \in DOMAIN prevButtons |->
     IF ButtonChanged(prevButtons[i], cw, ch)
       THEN ClampButton(prevButtons[i], cw, ch)
       ELSE prevButtons[i]]

Changed(prevButtons, cw, ch) ==
  \E i \in DOMAIN prevButtons : ButtonChanged(prevButtons[i], cw, ch)

\* the value the setButtons updater of the reconcile effect returns
Reconcile(prevButtons, cw, ch) ==
  IF Changed(prevButtons, cw, ch) THEN UpdatedButtons(prevButtons, cw, ch)
  ELSE prevButtons

\* whether that value is a new array or prevButtons itself
ReconcileOutcome(prevButtons, cw, ch) ==
  IF Changed(prevButtons, cw, ch) THEN "new" ELSE "same"

-----------------------------------------------------------------------------
(* Values the environment supplies *)

Null == [null |-> TRUE]

NoSession == [kind |-> "none", before |-> <<>>]

NoProbe == [passes |-> 0]

\* A stored button; ids of stored buttons are timestamps of earlier sessions.
StoredButton(id, x, y, w, h) ==
  [id |-> id, name |-> "stored", color |-> "#60A5FA", linkedItem |-> "r1",
   x |-> x, y |-> y, width |-> w, height |-> h, type |-> "normal",
   isFontAdaptive |-> TRUE, fontSize |-> 16, fontColor |-> "white",
   showLegend |-> FALSE, legendOverrides |-> {}]

\* The chart values the persistence collaborator hands in.  A stored
\* dimension of 0 stands for a missing one.
Charts ==
  { [name |-> "A", canvasWidth |-> 800, canvasHeight |-> 500,
     buttons |-> << StoredButton(1, 700, 400, 120, 40) >>],
    [name |-> "B", canvasWidth |-> 0, canvasHeight |-> 500,
     buttons |-> << >>] }

\* The reference items of the range context: none, or two.
RangeSets == { << >>, << "r1", "r2" >> }

\* What the user types into a dimension field.
TypedTexts ==
  { << "a", "b", "c" >>, << >>, << "5" >>, << "1", "0", "0" >>,
    << " ", "1", "0", "0", "p", "x" >> }

\* The display areas window.innerWidth x window.innerHeight.
Windows == { [innerWidth |-> 800, innerHeight |-> 500] }

\* The partial values the settings dialog merges into the draft.
DraftEdits == { [name |-> "edited", x |-> 95] }

\* The override mappings the legend preview dialog saves: sets of
\* <<entry key, override text>>.
OverrideMaps == { {}, { << "A", "Spade-Ace" >> } }

\* The clock at construction: later than every stored id.
ClockStart == 10

MaxClock == ClockStart + MaxTicks

Mounted == calls = << >>

HadDraft == editingButton # Null

Op(name) == [name |-> name, hadDraft |-> HadDraft]

\* the same, for a handler whose argument the properties refer to
OpOn(name, arg) == [name |-> name, hadDraft |-> HadDraft, arg |-> arg]

-----------------------------------------------------------------------------
(* The state after construction: the initial render and its two effects *)

Init ==
  /\ chart \in Charts
  /\ allRanges \in RangeSets
  /\ chartName = chart.name
  /\ canvasWidth = OrDefault(chart.canvasWidth, DefaultCanvasWidth)
  /\ canvasHeight = OrDefault(chart.canvasHeight, DefaultCanvasHeight)
  /\ buttons = Reconcile(chart.buttons, canvasWidth, canvasHeight)
  /\ isButtonModalOpen = FALSE
  /\ editingButton = Null
  /\ isLegendPreviewOpen = FALSE
  /\ now = ClockStart
  /\ saved = Null
  /\ calls = << >>
  /\ lastOp = [name |-> "mount", hadDraft |-> FALSE]
  /\ reconciled = ReconcileOutcome(chart.buttons, canvasWidth, canvasHeight)
  /\ session = NoSession
  /\ steps = 0
  /\ probe = NoProbe

-----------------------------------------------------------------------------
(* Setting the canvas dimensions, followed by the reconcile effect *)

\* setCanvasWidth(w); setCanvasHeight(h) in one handler: the reconcile
\* effect runs once, after the render, when a dimension is a new value.
SetCanvas(w, h) ==
  /\ canvasWidth' = w
  /\ canvasHeight' = h
  /\ IF ObjectIs(w, canvasWidth) /\ ObjectIs(h, canvasHeight)
       THEN /\ buttons' = buttons
            /\ reconciled' = "none"
       ELSE /\ buttons' = Reconcile(buttons, w, h)
            /\ reconciled' = ReconcileOutcome(buttons, w, h)

\* The effect on [chart]: the working state is reset from the new chart
\* value; the reconcile effect follows when a dimension changed.
LoadChart ==
  /\ Mounted
  /\ steps < MaxSteps
  /\ steps' = steps + 1
  /\ \E c \in Charts :
       LET w == OrDefault(c.canvasWidth, DefaultCanvasWidth)
           h == OrDefault(c.canvasHeight, DefaultCanvasHeight)
       IN /\ chart' = c
          /\ chartName' = c.name
          /\ canvasWidth' = w
          /\ canvasHeight' = h
          /\ IF ObjectIs(w, canvasWidth) /\ ObjectIs(h, canvasHeight)
               THEN /\ buttons' = c.buttons
                    /\ reconciled' = "none"
               ELSE /\ buttons' = Reconcile(c.buttons, w, h)
                    /\ reconciled' = ReconcileOutcome(c.buttons, w, h)
  /\ lastOp' = Op("loadChart")
  /\ session' = NoSession
  /\ UNCHANGED << allRanges, isButtonModalOpen, editingButton,
                  isLegendPreviewOpen, now, saved, calls, probe >>

handleDimensionChange ==
  /\ Mounted
  /\ steps < MaxSteps
  /\ steps' = steps + 1
  /\ \E value \in TypedTexts, dimension \in {"width", "height"} :
       IF dimension = "width"
         THEN SetCanvas(ParseInt(value), canvasHeight)
         ELSE SetCanvas(canvasWidth, ParseInt(value))
  /\ lastOp' = Op("dimensionChange")
  /\ session' = NoSession
  /\ UNCHANGED << chart, allRanges, chartName, isButtonModalOpen, editingButton,
                  isLegendPreviewOpen, now, saved, calls, probe >>

\* the repair test forgets isNaN: NaN < MIN_CANVAS_DIMENSION is false
BlurValueNoNaNTest(currentValue) ==
  IF JsLt(currentValue, MIN_CANVAS_DIMENSION)
    THEN MIN_CANVAS_DIMENSION
    ELSE currentValue

\* The value a dimension field hands to its blur handler is the dimension
\* it displays.
BlurValue(currentValue) ==
  IF IsNaN(currentValue) \/ JsLt(currentValue, MIN_CANVAS_DIMENSION)
    THEN MIN_CANVAS_DIMENSION
    ELSE currentValue

handleDimensionBlur ==
  /\ Mounted
  /\ steps < MaxSteps
  /\ steps' = steps + 1
  /\ \E dimension \in {"width", "height"} :
       /\ IF dimension = "width"
            THEN SetCanvas(BlurValue(canvasWidth), canvasHeight)
            ELSE SetCanvas(canvasWidth, BlurValue(canvasHeight))
       /\ lastOp' = OpOn("dimensionBlur", dimension)
  /\ session' = NoSession
  /\ UNCHANGED << chart, allRanges, chartName, isButtonModalOpen, editingButton,
                  isLegendPreviewOpen, now, saved, calls, probe >>

handleMaximizeCanvas ==
  /\ Mounted
  /\ steps < MaxSteps
  /\ steps' = steps + 1
  /\ \E window \in Windows, isMobileMode \in BOOLEAN :
       IF ~isMobileMode
         THEN SetCanvas(RoundPercent(window.innerWidth, 97),
                        RoundPercent(window.innerHeight, 91))
         ELSE SetCanvas(window.innerWidth, window.innerHeight)
  /\ lastOp' = Op("maximize")
  /\ session' = NoSession
  /\ UNCHANGED << chart, allRanges, chartName, isButtonModalOpen, editingButton,
                  isLegendPreviewOpen, now, saved, calls, probe >>

-----------------------------------------------------------------------------
(* The button lifecycle handlers *)

\* the type is not made to follow the reference items
NewButtonAlwaysNormal ==
  [id |-> now, name |-> "new", color |-> "#60A5FA",
   linkedItem |-> IF Len(allRanges) > 0 THEN allRanges[1] ELSE "label-only",
   x |-> 50, y |-> 50, width |-> 120, height |-> 40,
   type |-> "normal",
   isFontAdaptive |-> TRUE, fontSize |-> 16, fontColor |-> "white",
   showLegend |-> FALSE, legendOverrides |-> {}]

NewButton ==
  [id |-> now, name |-> "new", color |-> "#60A5FA",
   linkedItem |-> IF Len(allRanges) > 0 THEN allRanges[1] ELSE "label-only",
   x |-> 50, y |-> 50, width |-> 120, height |-> 40,
   type |-> IF Len(allRanges) > 0 THEN "normal" ELSE "label",
   isFontAdaptive |-> TRUE, fontSize |-> 16, fontColor |-> "white",
   showLegend |-> FALSE, legendOverrides |-> {}]

handleAddButton ==
  /\ Mounted
  /\ steps < MaxSteps
  /\ steps' = steps + 1
  /\ Len(buttons) < MaxButtons
  /\ buttons' = Append(buttons, NewButton)
  /\ editingButton' = NewButton
  /\ isButtonModalOpen' = TRUE
  /\ lastOp' = Op("addButton")
  /\ reconciled' = "none"
  /\ session' = [kind |-> "add", before |-> buttons]
  /\ UNCHANGED << chart, allRanges, chartName, canvasWidth, canvasHeight,
                  isLegendPreviewOpen, now, saved, calls, probe >>

\* The canvas hands the handler one of the buttons it renders.
handleSettingsClick ==
  /\ Mounted
  /\ steps < MaxSteps
  /\ steps' = steps + 1
  /\ \E i \in DOMAIN buttons :
       /\ editingButton' = buttons[i]
       /\ session' = [kind |-> "open", before |-> buttons]
  /\ isButtonModalOpen' = TRUE
  /\ lastOp' = Op("settingsClick")
  /\ reconciled' = "none"
  /\ UNCHANGED << chart, allRanges, chartName, buttons, canvasWidth,
                  canvasHeight, isLegendPreviewOpen, now, saved, calls, probe >>

\* The merged value the settings dialog hands to setEditingButton.
MergedDraft(draft, partial) ==
  [f \in DOMAIN draft |-> IF f \in DOMAIN partial THEN partial[f] ELSE draft[f]]

UpdateDraft ==
  /\ Mounted
  /\ steps < MaxSteps
  /\ steps' = steps + 1
  /\ editingButton # Null
  /\ \E partial \in DraftEdits :
       editingButton' = MergedDraft(editingButton, partial)
  /\ lastOp' = Op("updateDraft")
  /\ reconciled' = "none"
  /\ UNCHANGED << chart, allRanges, chartName, buttons, canvasWidth, canvasHeight,
                  isButtonModalOpen, isLegendPreviewOpen, now, saved, calls,
                  session, probe >>

\* the map forgets the id test and stores the draft over every button
CommittedNoIdTest(prev, draft) == [i \in DOMAIN prev |-> draft]

\* prev.map(btn => btn.id === editingButton.id ? editingButton : btn)
Committed(prev, draft) ==
  [i \in DOMAIN prev |-> IF prev[i].id = draft.id THEN draft ELSE prev[i]]

handleSaveButtonProperties ==
  /\ Mounted
  /\ steps < MaxSteps
  /\ steps' = steps + 1
  /\ IF editingButton # Null
       THEN /\ buttons' = Committed(buttons, editingButton)
            /\ isButtonModalOpen' = FALSE
            /\ editingButton' = Null
       ELSE UNCHANGED << buttons, isButtonModalOpen, editingButton >>
  /\ lastOp' = Op("commitDraft")
  /\ reconciled' = "none"
  /\ session' = NoSession
  /\ UNCHANGED << chart, allRanges, chartName, canvasWidth, canvasHeight,
                  isLegendPreviewOpen, now, saved, calls, probe >>

\* the filter test is inverted and keeps the buttons it should drop
WithoutInverted(prev, id) == SelectSeq(prev, LAMBDA b : b.id = id)

\* prev.filter(b => b.id !== id)
Without(prev, id) == SelectSeq(prev, LAMBDA b : b.id # id)

InOriginalChart(id) == \E i \in DOMAIN chart.buttons : chart.buttons[i].id = id

Cancelled(prev, draft) ==
  IF draft # Null /\ ~InOriginalChart(draft.id)
    THEN Without(prev, draft.id)
    ELSE prev

handleCancelButtonProperties ==
  /\ Mounted
  /\ steps < MaxSteps
  /\ steps' = steps + 1
  /\ buttons' = Cancelled(buttons, editingButton)
  /\ isButtonModalOpen' = FALSE
  /\ editingButton' = Null
  /\ lastOp' = Op("cancelDraft")
  /\ reconciled' = "none"
  /\ session' = NoSession
  /\ UNCHANGED << chart, allRanges, chartName, canvasWidth, canvasHeight,
                  isLegendPreviewOpen, now, saved, calls, probe >>

Duplicate(draft) ==
  [draft EXCEPT !.id = now, !.x = JsAdd(draft.x, 10), !.y = JsAdd(draft.y, 10)]

duplicateCurrentButton ==
  /\ Mounted
  /\ steps < MaxSteps
  /\ steps' = steps + 1
  /\ IF editingButton # Null
       THEN /\ Len(buttons) < MaxButtons
            /\ buttons' = Append(buttons, Duplicate(editingButton))
            /\ isButtonModalOpen' = FALSE
            /\ editingButton' = Null
       ELSE UNCHANGED << buttons, isButtonModalOpen, editingButton >>
  /\ lastOp' = Op("duplicateDraft")
  /\ reconciled' = "none"
  /\ session' = NoSession
  /\ UNCHANGED << chart, allRanges, chartName, canvasWidth, canvasHeight,
                  isLegendPreviewOpen, now, saved, calls, probe >>

handleDeleteButton ==
  /\ Mounted
  /\ steps < MaxSteps
  /\ steps' = steps + 1
  /\ IF editingButton # Null
       THEN /\ buttons' = Without(buttons, editingButton.id)
            /\ isButtonModalOpen' = FALSE
            /\ editingButton' = Null
       ELSE UNCHANGED << buttons, isButtonModalOpen, editingButton >>
  /\ lastOp' = Op("deleteDraft")
  /\ reconciled' = "none"
  /\ session' = NoSession
  /\ UNCHANGED << chart, allRanges, chartName, canvasWidth, canvasHeight,
                  isLegendPreviewOpen, now, saved, calls, probe >>

handleOpenLegendPreview ==
  /\ Mounted
  /\ steps < MaxSteps
  /\ steps' = steps + 1
  /\ isLegendPreviewOpen' = IF editingButton # Null THEN TRUE ELSE isLegendPreviewOpen
  /\ lastOp' = Op("openLegendPreview")
  /\ reconciled' = "none"
  /\ session' = NoSession
  /\ UNCHANGED << chart, allRanges, chartName, buttons, canvasWidth, canvasHeight,
                  isButtonModalOpen, editingButton, now, saved, calls, probe >>

\* the updater spreads prev without testing it for null
WithOverridesUnguarded(prev, newOverrides) ==
  IF prev = Null THEN [legendOverrides |-> newOverrides]
  ELSE [prev EXCEPT !.legendOverrides = newOverrides]

\* the updater merges the new mapping into the prior one, key by key
WithOverridesMerged(prev, newOverrides) ==
  IF prev = Null THEN Null
  ELSE [prev EXCEPT !.legendOverrides =
          newOverrides \cup
            { o \in @ : \A n \in newOverrides : n[1] # o[1] }]

\* the setEditingButton updater of the legend save
WithOverrides(prev, newOverrides) ==
  IF prev = Null THEN Null
  ELSE [prev EXCEPT !.legendOverrides = newOverrides]

handleSaveLegendOverrides ==
  /\ Mounted
  /\ steps < MaxSteps
  /\ steps' = steps + 1
  /\ \E newOverrides \in OverrideMaps :
       /\ editingButton' = WithOverrides(editingButton, newOverrides)
       /\ lastOp' = OpOn("saveLegendOverrides", newOverrides)
  /\ isLegendPreviewOpen' = FALSE
  /\ reconciled' = "none"
  /\ session' = NoSession
  /\ UNCHANGED << chart, allRanges, chartName, buttons, canvasWidth, canvasHeight,
                  isButtonModalOpen, now, saved, calls, probe >>

handleBackButtonClick ==
  /\ Mounted
  /\ steps < MaxSteps
  /\ steps' = steps + 1
  /\ saved' = [name |-> chartName, buttons |-> buttons,
               canvasWidth |-> canvasWidth, canvasHeight |-> canvasHeight]
  /\ calls' = << "onSaveChart", "onBackToCharts" >>
  /\ lastOp' = Op("back")
  /\ reconciled' = "none"
  /\ session' = NoSession
  /\ UNCHANGED << chart, allRanges, chartName, buttons, canvasWidth, canvasHeight,
                  isButtonModalOpen, editingButton, isLegendPreviewOpen, now, probe >>

\* Time passes between two handlers; it need not.
Tick ==
  /\ Mounted
  /\ steps < MaxSteps
  /\ steps' = steps + 1
  /\ now < MaxClock
  /\ now' = now + 1
  /\ lastOp' = Op("tick")
  /\ reconciled' = "none"
  /\ UNCHANGED << chart, allRanges, chartName, buttons, canvasWidth, canvasHeight,
                  isButtonModalOpen, editingButton, isLegendPreviewOpen, saved,
                  calls, session, probe >>

Next ==
  \/ LoadChart
  \/ handleDimensionChange
  \/ handleDimensionBlur
  \/ handleMaximizeCanvas
  \/ handleAddButton
  \/ handleSettingsClick
  \/ UpdateDraft
  \/ handleSaveButtonProperties
  \/ handleCancelButtonProperties
  \/ duplicateCurrentButton
  \/ handleDeleteButton
  \/ handleOpenLegendPreview
  \/ handleSaveLegendOverrides
  \/ handleBackButtonClick
  \/ Tick

Spec == Init /\ [][Next]_vars

-----------------------------------------------------------------------------
(* The geometry clamp on its own: a button and a canvas are drawn, and the  *)
(* clamp of the reconcile pass is applied to the button, pass after pass.   *)

ProbeXs == { -20, 0, 50, 96, 700 }
ProbeWidths == { -4, 0, 5, 120, 900 }
ProbeYs == { -20, 60, 400 }
ProbeHeights == { -4, 40, 900 }
ProbeCanvasWidths == { MIN_CANVAS_DIMENSION, MIN_CANVAS_DIMENSION + 1, 800 }
ProbeCanvasHeights == { MIN_CANVAS_DIMENSION, 500 }

ProbeButtons ==
  { [id |-> 0, x |-> x, y |-> y, width |-> w, height |-> h] :
      x \in ProbeXs, y \in ProbeYs, w \in ProbeWidths, h \in ProbeHeights }

ClampInit ==
  /\ chart = CHOOSE c \in Charts : c.name = "A"
  /\ allRanges = << >>
  /\ chartName = chart.name
  /\ canvasWidth = OrDefault(chart.canvasWidth, DefaultCanvasWidth)
  /\ canvasHeight = OrDefault(chart.canvasHeight, DefaultCanvasHeight)
  /\ buttons = Reconcile(chart.buttons, canvasWidth, canvasHeight)
  /\ isButtonModalOpen = FALSE
  /\ editingButton = Null
  /\ isLegendPreviewOpen = FALSE
  /\ now = ClockStart
  /\ saved = Null
  /\ calls = << >>
  /\ lastOp = [name |-> "mount", hadDraft |-> FALSE]
  /\ reconciled = ReconcileOutcome(chart.buttons, canvasWidth, canvasHeight)
  /\ session = NoSession
  /\ steps = 0
  /\ \E b \in ProbeButtons, cw \in ProbeCanvasWidths, ch \in ProbeCanvasHeights :
       probe = [input |-> b, button |-> b, cw |-> cw, ch |-> ch, passes |-> 0]

ClampPass ==
  /\ probe.passes < MaxPasses
  /\ probe' = [probe EXCEPT !.button = ClampButton(probe.button, probe.cw, probe.ch),
                            !.passes = @ + 1]
  /\ UNCHANGED << chart, allRanges, chartName, buttons, canvasWidth, canvasHeight,
                  isButtonModalOpen, editingButton, isLegendPreviewOpen, now,
                  saved, calls, lastOp, reconciled, session, steps >>

ClampNext == ClampPass

ClampSpec == ClampInit /\ [][ClampNext]_vars

-----------------------------------------------------------------------------
(* Properties *)

\* The button invariant against a canvas of cw x ch, with the source
\* language's comparisons (false on NaN).
InsideCanvas(b, cw, ch) ==
  /\ JsLeq(0, b.x)
  /\ JsLeq(0, b.y)
  /\ JsLeq(JsAdd(b.x, b.width), cw)
  /\ JsLeq(JsAdd(b.y, b.height), ch)
  /\ JsLeq(MIN_BUTTON_DIMENSION, b.width)
  /\ JsLeq(MIN_BUTTON_DIMENSION, b.height)

\* C1: whatever integer geometry a button has, once the clamp has been
\* applied against a canvas of at least MIN_CANVAS_DIMENSION in both axes the
\* button has x >= 0, y >= 0, x + width <= W, y + height <= H and width,
\* height >= MIN_BUTTON_DIMENSION; the button at (700,400,120,40) clamped
\* against 100 x 100 lies inside it.
C1_ClampPreservesInvariant ==
  probe.passes >= 1 => InsideCanvas(probe.button, probe.cw, probe.ch)

C1_Witness ==
  /\ probe.passes = 1
  /\ probe.input = [id |-> 0, x |-> 700, y |-> 400, width |-> 120, height |-> 40]
  /\ probe.cw = 100
  /\ probe.ch = 100
  /\ probe.button = [id |-> 0, x |-> 0, y |-> 60, width |-> 100, height |-> 40]

\* C2: a pass of the clamp over an already clamped button, with the same
\* canvas, changes no field of it.
C2_ClampIdempotent ==
  [][probe.passes >= 1 /\ probe'.passes = probe.passes + 1
       => probe'.button = probe.button]_vars

C2_Witness ==
  /\ probe.passes = 2
  /\ probe.button # probe.input

\* C3: whenever the editor is at rest, every button of the working
\* collection satisfies x + width <= canvasWidth, y + height <= canvasHeight,
\* width >= MIN_BUTTON_DIMENSION and height >= MIN_BUTTON_DIMENSION.
C3_ButtonInvariantAtRest ==
  \A i \in DOMAIN buttons :
    /\ JsLeq(JsAdd(buttons[i].x, buttons[i].width), canvasWidth)
    /\ JsLeq(JsAdd(buttons[i].y, buttons[i].height), canvasHeight)
    /\ JsLeq(MIN_BUTTON_DIMENSION, buttons[i].width)
    /\ JsLeq(MIN_BUTTON_DIMENSION, buttons[i].height)

\* C4: opening the settings of a button of the working collection, editing
\* the draft any number of times and cancelling leaves the collection
\* exactly as it was before the settings were opened.
C4_CancelPreservesExisting ==
  [][lastOp'.name = "cancelDraft" /\ session.kind = "open"
       => buttons' = session.before]_vars

\* C5: adding a button, editing the draft any number of times and
\* cancelling leaves the working collection exactly as it was before the
\* button was added, and clears the draft.
C5_CancelDiscardsNew ==
  [][lastOp'.name = "cancelDraft" /\ session.kind = "add"
       => buttons' = session.before /\ editingButton' = Null]_vars

\* C6: no two buttons of the working collection share an id.
C6_IdsUnique ==
  \A i, j \in DOMAIN buttons : i # j => buttons[i].id # buttons[j].id

\* C7: with a draft set, duplicating appends exactly one button, equal to
\* the draft except for its id, which differs from the draft's, and its
\* position, which is the draft's moved by (10, 10); the buttons already in
\* the collection keep their values and the draft is cleared.
C7_DuplicateOffsets ==
  [][lastOp'.name = "duplicateDraft" /\ editingButton # Null
       => /\ Len(buttons') = Len(buttons) + 1
          /\ SubSeq(buttons', 1, Len(buttons)) = buttons
          /\ LET copy == buttons'[Len(buttons')]
             IN /\ copy.id # editingButton.id
                /\ copy = [editingButton EXCEPT
                             !.id = copy.id,
                             !.x = JsAdd(editingButton.x, 10),
                             !.y = JsAdd(editingButton.y, 10)]
          /\ editingButton' = Null]_vars

\* C8: committing with a draft set replaces the buttons whose id is the
\* draft's by the draft, leaves every other button, the length and the order
\* as they were, and clears the draft; committing with no draft set changes
\* neither the collection nor the draft.
C8_CommitDraft ==
  [][lastOp'.name = "commitDraft"
       => IF editingButton # Null
            THEN /\ Len(buttons') = Len(buttons)
                 /\ \A i \in DOMAIN buttons :
                      buttons'[i] = IF buttons[i].id = editingButton.id
                                      THEN editingButton
                                      ELSE buttons[i]
                 /\ editingButton' = Null
            ELSE /\ buttons' = buttons
                 /\ editingButton' = Null]_vars

\* a commit stored an edited draft over one button and left another one alone
C8_Witness ==
  /\ lastOp = [name |-> "commitDraft", hadDraft |-> TRUE]
  /\ editingButton = Null
  /\ Len(buttons) = 2
  /\ \E i, j \in DOMAIN buttons :
       /\ buttons[i].name = "edited" /\ buttons[i].x = 95
       /\ buttons[j].name # "edited"

NeedsDraft ==
  { "commitDraft", "cancelDraft", "duplicateDraft", "deleteDraft",
    "openLegendPreview", "saveLegendOverrides" }

\* C9: with no draft active, commit, cancel, duplicate, delete, opening the
\* legend preview and saving legend overrides leave the working collection,
\* the (unset) draft, the chart name and the canvas dimensions unchanged.
C9_NoOpMisuse ==
  [][editingButton = Null /\ lastOp'.name \in NeedsDraft
       => /\ buttons' = buttons
          /\ editingButton' = Null
          /\ chartName' = chartName
          /\ canvasWidth' = canvasWidth
          /\ canvasHeight' = canvasHeight]_vars

\* a handler that needs a draft ran without one, over a non-empty collection
C9_Witness ==
  /\ lastOp.name \in NeedsDraft
  /\ ~lastOp.hadDraft
  /\ editingButton = Null
  /\ buttons # << >>

Geometry(b) == << b.x, b.y, b.width, b.height >>

\* the collection a reconcile pass of the last step started from
PassInput == IF lastOp'.name = "loadChart" THEN chart'.buttons ELSE buttons

\* C10: a reconcile pass returns the collection it was given exactly when
\* clamping changes no button's x, y, width or height; when it returns a new
\* collection, the number, order and ids of the buttons are kept, unchanged
\* buttons are carried over and changed ones differ in geometry only.
C10_ReferentialNoOp ==
  [][reconciled' # "none"
       => LET prev == PassInput
              cw   == canvasWidth'
              ch   == canvasHeight'
              same(i) == Geometry(ClampButton(prev[i], cw, ch)) = Geometry(prev[i])
          IN /\ (reconciled' = "same") <=> (\A i \in DOMAIN prev : same(i))
             /\ reconciled' = "same" => buttons' = prev
             /\ Len(buttons') = Len(prev)
             /\ \A i \in DOMAIN prev :
                  /\ buttons'[i].id = prev[i].id
                  /\ same(i) => buttons'[i] = prev[i]
                  /\ buttons'[i] = [prev[i] EXCEPT !.x = buttons'[i].x,
                                                   !.y = buttons'[i].y,
                                                   !.width = buttons'[i].width,
                                                   !.height = buttons'[i].height]]_vars


\* C11: a blur of a dimension field whose pending value is not a number or is
\* below MIN_CANVAS_DIMENSION sets that dimension to exactly 100; a pending
\* number >= 100 is left as it is; the other dimension is never changed.
C11_BlurRepair ==
  [][lastOp'.name = "dimensionBlur"
       => LET width   == lastOp'.arg = "width"
              pending == IF width THEN canvasWidth ELSE canvasHeight
              after   == IF width THEN canvasWidth' ELSE canvasHeight'
          IN /\ (IsNaN(pending) \/ pending < 100) => after = 100
             /\ (~IsNaN(pending) /\ pending >= 100) => after = pending
             /\ IF width THEN canvasHeight' = canvasHeight
                         ELSE canvasWidth' = canvasWidth]_vars

\* a blur of the width field repaired a width that had been NaN
C11_Witness ==
  /\ lastOp.name = "dimensionBlur"
  /\ lastOp.arg = "width"
  /\ reconciled # "none"
  /\ canvasWidth = 100
  /\ \E i \in DOMAIN buttons : IsNaN(buttons[i].x)


\* C12: when a dimension change carrying an invalid value is followed by the
\* blur that repairs the dimension, and both dimensions are then at least
\* MIN_CANVAS_DIMENSION, every button has numeric x, y, width, height with
\* x >= 0, y >= 0, x + width <= canvasWidth, y + height <= canvasHeight and
\* width, height >= MIN_BUTTON_DIMENSION.
C12_InvalidInputDeferred ==
  [][(/\ lastOp.name = "dimensionChange"
      /\ lastOp'.name = "dimensionBlur"
      /\ reconciled' # "none"
      /\ JsLeq(MIN_CANVAS_DIMENSION, canvasWidth')
      /\ JsLeq(MIN_CANVAS_DIMENSION, canvasHeight'))
       => \A i \in DOMAIN buttons' :
            InsideCanvas(buttons'[i], canvasWidth', canvasHeight')]_vars


\* C13: once the editor was left, the chart handed to onSaveChart has the
\* working name, buttons and dimensions, its canvasWidth and canvasHeight
\* are numbers >= MIN_CANVAS_DIMENSION, and onSaveChart was invoked exactly
\* once, before onBackToCharts, invoked exactly once.
C13_SavedSnapshotWellFormed ==
  saved # Null
    => /\ saved.name = chartName
       /\ saved.buttons = buttons
       /\ saved.canvasWidth = canvasWidth
       /\ saved.canvasHeight = canvasHeight
       /\ JsLeq(MIN_CANVAS_DIMENSION, saved.canvasWidth)
       /\ JsLeq(MIN_CANVAS_DIMENSION, saved.canvasHeight)
       /\ calls = << "onSaveChart", "onBackToCharts" >>


DraftOnly == { "settingsClick", "updateDraft", "saveLegendOverrides" }

\* C14: opening the settings, updating the draft and saving legend overrides
\* leave the working collection unchanged; saving legend overrides with a
\* draft set makes the draft's legendOverrides the new mapping, whole, and
\* leaves every other field of the draft as it was.
C14_DraftEditsNeverLeak ==
  [][lastOp'.name \in DraftOnly
       => /\ buttons' = buttons
          /\ (lastOp'.name = "saveLegendOverrides" /\ editingButton # Null)
               => /\ editingButton'.legendOverrides = lastOp'.arg
                  /\ editingButton' =
                       [editingButton EXCEPT !.legendOverrides = lastOp'.arg]]_vars

\* the empty mapping was saved over a draft that is not the committed value
\* of its button, and the draft's overrides are gone
C14_Witness ==
  /\ lastOp.name = "saveLegendOverrides"
  /\ lastOp.hadDraft
  /\ lastOp.arg = {}
  /\ editingButton # Null
  /\ editingButton.legendOverrides = {}
  /\ editingButton.name = "edited"
  /\ \E i \in DOMAIN buttons :
       buttons[i].id = editingButton.id /\ buttons[i].name # "edited"


\* the ids of the reference items
RangeIds == { allRanges[k] : k \in DOMAIN allRanges }

\* C15: addButton appends exactly one button at the end of the working
\* collection, at x=50, y=50, width=120, height=40, and sets the draft to
\* that button; with at least one reference item the button has type normal
\* and is linked to the first one, with none it has type label and is linked
\* to "label-only".
C15_AddButton ==
  [][lastOp'.name = "addButton"
       => /\ Len(buttons') = Len(buttons) + 1
          /\ SubSeq(buttons', 1, Len(buttons)) = buttons
          /\ LET added == buttons'[Len(buttons')]
             IN /\ editingButton' = added
                /\ Geometry(added) = << 50, 50, 120, 40 >>
                /\ allRanges # << >>
                     => added.type = "normal" /\ added.linkedItem = allRanges[1]
                /\ allRanges = << >>
                     => added.type = "label" /\ added.linkedItem = "label-only"
                /\ added.type = "label" => added.linkedItem = "label-only"
                /\ added.type = "normal" => added.linkedItem \in RangeIds]_vars

\* a label button was added behind a stored one and is the draft
C15_Witness ==
  /\ lastOp.name = "addButton"
  /\ Len(buttons) = 2
  /\ buttons[1].name = "stored"
  /\ buttons[2] = editingButton
  /\ editingButton.type = "label"
  /\ editingButton.linkedItem = "label-only"


\* the positions of the buttons of a collection whose id is not the given one
Others(collection, id) == { i \in DOMAIN collection : collection[i].id # id }

\* C16: deleting with a draft set leaves no button with the draft's id in
\* the working collection, keeps every button with another id, with its
\* values and in the same relative order, and clears the draft.
C16_DeleteDraft ==
  [][lastOp'.name = "deleteDraft" /\ editingButton # Null
       => /\ \A i \in DOMAIN buttons' : buttons'[i].id # editingButton.id
          /\ Len(buttons') = Cardinality(Others(buttons, editingButton.id))
          /\ \A i \in Others(buttons, editingButton.id) :
               buttons'[Cardinality({ j \in Others(buttons, editingButton.id) :
                                        j <= i })] = buttons[i]
          /\ editingButton' = Null]_vars

\* a stored button was deleted and a button added in the session remains
C16_Witness ==
  /\ lastOp = [name |-> "deleteDraft", hadDraft |-> TRUE]
  /\ editingButton = Null
  /\ Len(buttons) = 1
  /\ buttons[1].name # "stored"
  /\ chart.buttons # << >>


\* C17: when the draft lies inside the canvas, the copy duplicateDraft
\* places at (x + 10, y + 10) satisfies x + width <= canvasWidth and
\* y + height <= canvasHeight once the handler has completed.
C17_DuplicateIsClamped ==
  [][(/\ lastOp'.name = "duplicateDraft"
      /\ editingButton # Null
      /\ InsideCanvas(editingButton, canvasWidth, canvasHeight))
       => LET copy == buttons'[Len(buttons')]
          IN /\ JsLeq(JsAdd(copy.x, copy.width), canvasWidth')
             /\ JsLeq(JsAdd(copy.y, copy.height), canvasHeight')]_vars

\* C18: a step that changes canvasWidth or canvasHeight reclamps the whole
\* collection at once: after it no button is left that the clamp against
\* the new dimensions would still change, and the collection keeps its
\* length and the ids of its buttons in order.
C18_ReconcileAtomic ==
  [][(canvasWidth' # canvasWidth \/ canvasHeight' # canvasHeight)
       => /\ reconciled' # "none"
          /\ Len(buttons') = Len(PassInput)
          /\ \A i \in DOMAIN buttons' :
               /\ buttons'[i].id = PassInput[i].id
               /\ buttons'[i] = ClampButton(PassInput[i], canvasWidth', canvasHeight')
               /\ ClampButton(buttons'[i], canvasWidth', canvasHeight') = buttons'[i]]_vars

\* one pass moved and shrank two buttons that stuck out of a canvas narrowed
\* to 100
C18_Witness ==
  /\ lastOp.name = "dimensionChange"
  /\ reconciled = "new"
  /\ canvasWidth = 100
  /\ Len(buttons) = 2
  /\ \A i \in DOMAIN buttons : buttons[i].x = 0 /\ buttons[i].width = 100

\* C19: whenever the draft is set, the working collection holds a button
\* with the draft's id.
C19_DraftRefersToLiveButton ==
  editingButton # Null
    => \E i \in DOMAIN buttons : buttons[i].id = editingButton.id

====
